---- MODULE Spec2Model ----
(***************************************************************************)
(* Model of src/src/data/make_dataset.py: class StockData.                 *)
(*                                                                         *)
(* A StockData instance holds a ticker and two provider clients.  Its      *)
(* three methods are get_historical_data, get_fundamental_data and         *)
(* save_to_database.  The market-data provider and the relational          *)
(* database are the environment: the provider serves, per ticker, a        *)
(* daily-adjusted frame and four fundamentals payloads, and any call to    *)
(* it may raise; the database maps table names to stored frames, and any   *)
(* to_sql may raise.                                                       *)
(***************************************************************************)
EXTENDS Integers, Sequences, FiniteSets, TLC

VARIABLES
    ticker,      \* self.ticker of every constructed instance
    remote,      \* what the provider currently serves for every ticker
    db,          \* the database: table name -> stored frame, or NoTable
    pc,          \* position of every instance: idle, a step, done, failed
    method,      \* the method the instance is executing or executed last
    fd,          \* locals of get_fundamental_data (overview_df .. cf_df)
    frames,      \* values returned to the caller / locals of save_to_database
    err,         \* the exception that ended the call, or NoError
    calls,       \* provider calls issued by the current call, in order
    writes,      \* to_sql calls issued by the current call, in order
    runs,        \* number of method calls made so far, on any instance
    dbAtStart,   \* history: the database when the current call began
    clean,       \* history: no other instance issued a to_sql since then
    prev,        \* history: frames and database left by the previous save
    overlapped,  \* history: some save began while another one was running
    lastDone     \* history: the instance whose save completed last

vars == <<ticker, remote, db, pc, method, fd, frames, err, calls, writes,
          runs, dbAtStart, clean, prev, overlapped, lastDone>>

----------------------------------------------------------------------------
(* Bounds of the model *)

MaxCols == 9        \* widest daily-adjusted frame the provider serves
MaxRows == 2        \* most rows of a daily-adjusted frame
MaxQuarters == 2    \* most quarterly reports of one statement
MaxVersion == 2     \* number of times the provider's data moves on, plus one
MaxRuns == 2        \* method calls made in one behaviour

(* Program constants *)

NumHistoricalColumns == 8

Procs == {"p1", "p2"}
Tickers == {"MSFT", "AAPL"}

NoTable == [columns |-> <<>>, rows |-> <<>>, exists |-> FALSE]
NoFrame == [columns |-> <<"<unassigned>">>, rows |-> <<>>]
NoError == "none"
NoName == "<None>"
NoPrev == [valid |-> FALSE, frames |-> <<>>, db |-> <<>>]

----------------------------------------------------------------------------
(* Names fixed by the source *)

\* the local variables of save_to_database, in the order they are written
Locals == <<"historical_data", "overview_df", "bs_df", "is_df", "cf_df">>

FundLocals == <<"overview_df", "bs_df", "is_df", "cf_df">>

\* the column names get_historical_data gives to positions 0..7
HistoricalNames == <<"open", "high", "low", "close", "adjusted_close",
                     "volume", "dividend_amount", "split_coefficient">>

\* the first argument of each to_sql call
TableNames == [historical_data |-> "historical_data",
               overview_df     |-> "microsoft",
               bs_df           |-> "balance_sheet_data",
               is_df           |-> "income_statement_data",
               cf_df           |-> "cash_flow_data"]

\* the provider endpoint that fills each local
Endpoint == [historical_data |-> "get_daily_adjusted",
             overview_df     |-> "get_company_overview",
             bs_df           |-> "get_balance_sheet_quarterly",
             is_df           |-> "get_income_statement_quarterly",
             cf_df           |-> "get_cash_flow_quarterly"]

\* the field of the provider's data an endpoint serves
Payload == [get_daily_adjusted             |-> "daily",
            get_company_overview           |-> "overview",
            get_balance_sheet_quarterly    |-> "bs",
            get_income_statement_quarterly |-> "is",
            get_cash_flow_quarterly        |-> "cf"]

DestinationPerTicker(local, tk) == tk \o "." \o TableNames[local]

\* the table a local of the instance with ticker tk is written to
Destination(local, tk) == TableNames[local]

AllTables == {Destination(Locals[i], tk) : i \in 1..Len(Locals), tk \in Tickers}

Range(s) == {s[i] : i \in 1..Len(s)}

IsDistinct(s) == \A i, j \in 1..Len(s) : s[i] = s[j] => i = j

Max(S) == CHOOSE x \in S : \A y \in S : y <= x

----------------------------------------------------------------------------
(* Frames.  A frame is [columns, rows]: the column labels in order and the  *)
(* rows in order; a row <<tk, k>> stands for the values the provider holds  *)
(* for ticker tk under key k (a trading day or a quarter end).  The frame   *)
(* returned by the provider's daily-adjusted call also has an index name.   *)

\* pandas.DataFrame(data=data) on a frame: a copy with the same labels,
\* index and rows
DataFrame(data) == [columns |-> data.columns, index |-> data.index, rows |-> data.rows]

\* historical_data.columns[i] for i = 0..7 while building the rename
\* dictionary: IndexError as soon as a position does not exist
ColumnsIndexable(columns) == Len(columns) >= NumHistoricalColumns

RECURSIVE RenameUpTo(_, _)
RenameUpTo(columns, j) ==
    IF j = 0 THEN columns
    ELSE LET c == RenameUpTo(columns, j - 1)
         IN  [i \in 1..Len(c) |-> IF c[i] = c[j] THEN HistoricalNames[j] ELSE c[i]]

RenameChained(columns) == RenameUpTo(columns, NumHistoricalColumns)

\* DataFrame.rename(columns={columns[0]: 'open', ..., columns[7]:
\* 'split_coefficient'}): the dictionary is keyed by label, a repeated key
\* keeps its last value, and every column whose label is a key is renamed
Rename(columns) ==
    [i \in 1..Len(columns) |->
        LET hits == {j \in 1..NumHistoricalColumns :
                        j <= Len(columns) /\ columns[j] = columns[i]}
        IN  IF hits = {} THEN columns[i] ELSE HistoricalNames[Max(hits)]]

\* the label DataFrame.reset_index gives to the column made from the index
IndexLabel(index, columns) ==
    IF index # NoName THEN index
    ELSE IF "index" \in Range(columns) THEN "level_0" ELSE "index"

\* reset_index raises ValueError when that label is already a column
ResetIndexOk(index, columns) == IndexLabel(index, columns) \notin Range(columns)

\* DataFrame.reset_index(): the index becomes the first column
ResetIndex(index, columns) == <<IndexLabel(index, columns)>> \o columns

ShapeHistoricalTruncating(data) ==
    LET df == DataFrame(data)
    IN  IF ~ResetIndexOk(df.index, Rename(df.columns))
        THEN [error |-> "ValueError", frame |-> NoFrame]
        ELSE [error |-> NoError,
              frame |-> [columns |-> ResetIndex(df.index, Rename(df.columns)),
                         rows |-> df.rows]]

\* the body of get_historical_data after the provider call returned data
ShapeHistorical(data) ==
    LET df == DataFrame(data)
    IN  IF ~ColumnsIndexable(df.columns)
        THEN [error |-> "IndexError", frame |-> NoFrame]
        ELSE IF ~ResetIndexOk(df.index, Rename(df.columns))
        THEN [error |-> "ValueError", frame |-> NoFrame]
        ELSE [error |-> NoError,
              frame |-> [columns |-> ResetIndex(df.index, Rename(df.columns)),
                         rows |-> df.rows]]

\* pandas.DataFrame(overview[0], index=[0]): one row, one column per key
OverviewFrame(record) == [columns |-> record.keys, rows |-> <<record.row>>]

RECURSIVE UnionOfKeys(_)
\* the labels of a list of dictionaries: every key, in order of first
\* appearance
UnionOfKeys(records) ==
    IF records = <<>> THEN <<>>
    ELSE LET n == Len(records)
             before == UnionOfKeys(SubSeq(records, 1, n - 1))
             fresh == SelectSeq(records[n].keys, LAMBDA k : k \notin Range(before))
         IN  before \o fresh

FromRecordsFirstKeys(records) ==
    [columns |-> IF records = <<>> THEN <<>> ELSE records[1].keys,
     rows |-> [i \in 1..Len(records) |-> records[i].row]]

\* pandas.DataFrame.from_records(list of dictionaries): one row per record
FromRecords(records) ==
    [columns |-> UnionOfKeys(records),
     rows |-> [i \in 1..Len(records) |-> records[i].row]]

\* the frame get_fundamental_data builds from the payload of an endpoint
ShapeFundamental(local, payload) ==
    IF local = "overview_df" THEN OverviewFrame(payload) ELSE FromRecords(payload)

----------------------------------------------------------------------------
(* What the provider serves.  The data of a ticker is a record with the    *)
(* frame of the daily-adjusted call, the dictionary of the overview call    *)
(* and the lists of quarterly reports of the three statement calls.         *)

\* the labels the provider gives to the columns of the daily-adjusted frame
ProviderLabels == <<"1. open", "2. high", "3. low", "4. close",
                    "5. adjusted close", "6. volume", "7. dividend amount",
                    "8. split coefficient">>

LabelAt(base, i) ==
    IF i > NumHistoricalColumns THEN "x" \o ToString(i)
    ELSE IF base = "provider" THEN ProviderLabels[i]
    ELSE HistoricalNames[NumHistoricalColumns + 1 - i]

\* labels a column may carry instead of its own
OtherLabels == {"date", "index", "open", "1. open"}

\* n labels of a base labelling, position at (if any) relabelled as x
Labels(base, n, at, x) ==
    [i \in 1..n |-> IF i = at THEN x ELSE LabelAt(base, i)]

Rows(tk, from, n) == [i \in 1..n |-> <<tk, from + i - 1>>]

OverviewKeys == <<"Symbol", "Name", "Sector">>

StatementKeys == <<"fiscalDateEnding", "reportedCurrency">>

\* n quarterly reports; in the ragged shape the even reports carry other keys
Reports(tk, from, n, shape) ==
    [i \in 1..n |->
        [keys |-> IF shape = "ragged" /\ i % 2 = 0
                  THEN <<"reportedCurrency", "netIncome">> ELSE StatementKeys,
         row |-> <<tk, from + i - 1>>]]

\* the data of a ticker in the provider's usual shape
UsualData(tk) ==
    [ver      |-> 1,
     daily    |-> [columns |-> ProviderLabels, index |-> "date",
                   rows |-> Rows(tk, 1, MaxRows)],
     overview |-> [keys |-> OverviewKeys, row |-> <<tk, 0>>],
     bs       |-> Reports(tk, 1, MaxQuarters, "uniform"),
     is       |-> Reports(tk, 1, MaxQuarters, "uniform"),
     cf       |-> Reports(tk, 1, MaxQuarters, "uniform")]

DailyFrames(tk) ==
    {[columns |-> Labels(base, n, at, x), index |-> idx, rows |-> Rows(tk, 1, r)] :
        base \in {"provider", "named"},
        n \in {0} \cup ((NumHistoricalColumns - 2)..MaxCols), at \in 0..MaxCols,
        x \in OtherLabels, idx \in {"date", NoName}, r \in {MaxRows}}

Overviews(tk) ==
    {[keys |-> SubSeq(OverviewKeys, 1, n), row |-> <<tk, 0>>] : n \in 0..Len(OverviewKeys)}

\* data that differs from the usual shape in the daily frame or in the
\* fundamentals
DailyVariants(tk) == {[UsualData(tk) EXCEPT !.daily = d] : d \in DailyFrames(tk)}

FundamentalVariants(tk) ==
    {[UsualData(tk) EXCEPT !.overview = o,
                           !.bs = Reports(tk, 1, n_bs, shape),
                           !.is = Reports(tk, 1, n_is, shape),
                           !.cf = Reports(tk, 1, n_cf, shape)] :
        o \in Overviews(tk), shape \in {"uniform", "ragged"},
        n_bs \in 0..MaxQuarters, n_is \in 0..MaxQuarters, n_cf \in 0..MaxQuarters}

Shift(rows) == [i \in 1..Len(rows) |-> <<rows[i][1], rows[i][2] + 1>>]

ShiftReports(reports) ==
    [i \in 1..Len(reports) |-> [reports[i] EXCEPT !.row = <<@[1], @[2] + 1>>]]

\* the provider's data one period later: every series moves on by one key
MoveOn(data) ==
    [data EXCEPT !.ver = @ + 1,
                 !.daily.rows = Shift(@),
                 !.bs = ShiftReports(@), !.is = ShiftReports(@),
                 !.cf = ShiftReports(@)]

\* what a table held before the program ever ran
PriorFrame == [columns |-> <<"legacy">>, rows |-> <<<<"OLD", 0>>>>, exists |-> TRUE]

\* the database before the first run, and a database of an earlier use
FreshDatabase == [t \in AllTables |-> NoTable]

UsedDatabase == [t \in AllTables |-> PriorFrame]

\* a frame as stored by to_sql(..., index=False): its columns and rows
Stored(frame) == [columns |-> frame.columns, rows |-> frame.rows, exists |-> TRUE]

----------------------------------------------------------------------------
(* Control flow.  A position is <<kind, local>>: idle, create_engine, the   *)
(* provider call that fills a local, the to_sql that writes a local, done   *)
(* or failed.                                                               *)

Idle == <<"idle", "">>
Done == <<"done", "">>
Failed == <<"failed", "">>

Methods == {"get_historical_data", "get_fundamental_data", "save_to_database"}

\* get_historical_data: one provider call
HistoricalProgram == <<<<"call", "historical_data">>>>

FundamentalProgramBalanceSheetFirst ==
    <<<<"call", "bs_df">>, <<"call", "overview_df">>,
      <<"call", "is_df">>, <<"call", "cf_df">>>>

\* get_fundamental_data: four provider calls
FundamentalProgram == [i \in 1..Len(FundLocals) |-> <<"call", FundLocals[i]>>]

WriteProgramOverviewFirst ==
    <<<<"write", "overview_df">>, <<"write", "historical_data">>,
      <<"write", "bs_df">>, <<"write", "is_df">>, <<"write", "cf_df">>>>

\* the five to_sql calls of save_to_database
WriteProgram == [i \in 1..Len(Locals) |-> <<"write", Locals[i]>>]

SaveProgramWriteAsFetched ==
    <<<<"create_engine", "">>>> \o HistoricalProgram
        \o <<<<"write", "historical_data">>>> \o FundamentalProgram
        \o SubSeq(WriteProgram, 2, Len(WriteProgram))

\* save_to_database: the engine, both fetches, then the writes
SaveProgram ==
    <<<<"create_engine", "">>>> \o HistoricalProgram \o FundamentalProgram
        \o WriteProgram

Program(m) ==
    CASE m = "get_historical_data" -> HistoricalProgram
      [] m = "get_fundamental_data" -> FundamentalProgram
      [] m = "save_to_database" -> SaveProgram

\* the position that follows step in prog
After(prog, step) ==
    LET i == CHOOSE k \in 1..Len(prog) : prog[k] = step
    IN  IF i = Len(prog) THEN Done ELSE prog[i + 1]

Inst == DOMAIN pc

Running(p) == pc[p] \notin {Idle, Done, Failed}

NoFundamentals == [l \in Range(FundLocals) |-> NoFrame]

NoFrames == [l \in Range(Locals) |-> NoFrame]

Goto(p, step) ==
    /\ pc' = [pc EXCEPT ![p] = step]
    /\ lastDone' = IF step = Done /\ method[p] = "save_to_database"
                   THEN p ELSE lastDone

\* the statement returned normally: control moves to the next one
Continue(p) == Goto(p, After(Program(method[p]), pc[p])) /\ err' = err

RaiseSwallowed(p, e) == Continue(p)

\* the statement raised e: nothing catches it, the call ends with e
Raise(p, e) ==
    /\ pc' = [pc EXCEPT ![p] = Failed]
    /\ err' = [err EXCEPT ![p] = e]
    /\ lastDone' = lastDone

ReplaceMerge(old, frame) ==
    IF old.exists
    THEN [columns |-> frame.columns,
          rows |-> SelectSeq(old.rows, LAMBDA r : r \notin Range(frame.rows))
                       \o frame.rows,
          exists |-> TRUE]
    ELSE Stored(frame)

AppendTo(old, frame) ==
    IF old.exists
    THEN [columns |-> old.columns, rows |-> old.rows \o frame.rows, exists |-> TRUE]
    ELSE Stored(frame)

\* to_sql(..., if_exists='replace'): the table is dropped and created anew
Replace(old, frame) == Stored(frame)

----------------------------------------------------------------------------
(* Initial states *)

InitInstances(I, database) ==
    /\ db = database
    /\ pc = [p \in I |-> Idle]
    /\ method = [p \in I |-> "none"]
    /\ fd = [p \in I |-> NoFundamentals]
    /\ frames = [p \in I |-> NoFrames]
    /\ err = [p \in I |-> NoError]
    /\ calls = [p \in I |-> <<>>]
    /\ writes = [p \in I |-> <<>>]
    /\ runs = 0
    /\ dbAtStart = [p \in I |-> db]
    /\ clean = [p \in I |-> TRUE]
    /\ prev = [p \in I |-> NoPrev]
    /\ overlapped = FALSE
    /\ lastDone = "none"

\* two instances for different tickers against one database, fresh or used
\* before: the one of the entry point, StockData('MSFT'), and one for AAPL
Init ==
    /\ ticker = [p \in Procs |-> IF p = "p1" THEN "MSFT" ELSE "AAPL"]
    /\ remote = [tk \in Tickers |-> UsualData(tk)]
    /\ \E database \in {FreshDatabase, UsedDatabase} : InitInstances(Procs, database)

\* the instance of the entry point, StockData('MSFT'), and a database that
\* was used before
InitRefresh ==
    /\ ticker = [p \in {"p1"} |-> "MSFT"]
    /\ remote = [tk \in Tickers |-> UsualData(tk)]
    /\ InitInstances({"p1"}, UsedDatabase)

\* the instance of the entry point, StockData('MSFT'), a fresh database
\* and a provider that serves any of the shapes for it
InitFetch ==
    /\ ticker = [p \in {"p1"} |-> "MSFT"]
    /\ remote \in {[tk \in Tickers |-> IF tk = "MSFT" THEN d ELSE UsualData(tk)] :
                      d \in DailyVariants("MSFT") \cup FundamentalVariants("MSFT")}
    /\ InitInstances({"p1"}, FreshDatabase)

----------------------------------------------------------------------------
(* Actions *)

\* the caller invokes method m on instance p
Start(p, m) ==
    /\ ~Running(p)
    /\ runs < MaxRuns
    /\ pc' = [pc EXCEPT ![p] = Program(m)[1]]
    /\ method' = [method EXCEPT ![p] = m]
    /\ fd' = [fd EXCEPT ![p] = NoFundamentals]
    /\ frames' = [frames EXCEPT ![p] = NoFrames]
    /\ err' = [err EXCEPT ![p] = NoError]
    /\ calls' = [calls EXCEPT ![p] = <<>>]
    /\ writes' = [writes EXCEPT ![p] = <<>>]
    /\ runs' = runs + 1
    /\ dbAtStart' = [dbAtStart EXCEPT ![p] = db]
    /\ clean' = [clean EXCEPT ![p] = TRUE]
    /\ prev' = [prev EXCEPT ![p] =
                  IF pc[p] = Done /\ method[p] = "save_to_database" /\ clean[p]
                  THEN [valid |-> TRUE, frames |-> frames[p], db |-> db]
                  ELSE NoPrev]
    /\ overlapped' = (overlapped \/ (m = "save_to_database" /\
                        \E q \in Inst \ {p} :
                            Running(q) /\ method[q] = "save_to_database"))
    /\ UNCHANGED <<ticker, remote, db, lastDone>>

\* line 121: sqlalchemy.create_engine(conn_str)
CreateEngine(p) ==
    /\ pc[p] = <<"create_engine", "">>
    /\ \E ok \in BOOLEAN :
          IF ok THEN Continue(p) ELSE Raise(p, "ArgumentError")
    /\ UNCHANGED <<ticker, remote, db, method, fd, frames, calls, writes, runs,
                   dbAtStart, clean, prev, overlapped>>

\* lines 67-78: get_daily_adjusted(symbol=self.ticker), then the shaping
GetHistoricalData(p) ==
    /\ pc[p] = <<"call", "historical_data">>
    /\ \E ok \in BOOLEAN :
          LET shaped == ShapeHistorical(remote[ticker[p]].daily)
          IN  /\ calls' = [calls EXCEPT ![p] =
                    Append(@, <<Endpoint.historical_data, ticker[p], ok>>)]
              /\ IF ~ok
                 THEN Raise(p, "ProviderError") /\ frames' = frames
                 ELSE IF shaped.error # NoError
                 THEN Raise(p, shaped.error) /\ frames' = frames
                 ELSE /\ Continue(p)
                      /\ frames' = [frames EXCEPT ![p].historical_data = shaped.frame]
    /\ UNCHANGED <<ticker, remote, db, method, fd, writes, runs, dbAtStart,
                   clean, prev, overlapped>>

\* lines 96-108: one of the four calls of get_fundamental_data and the frame
\* built from it; after the last one the four frames are returned
GetFundamentalData(p) ==
    /\ pc[p][1] = "call"
    /\ pc[p][2] \in Range(FundLocals)
    /\ \E ok \in BOOLEAN :
          LET local == pc[p][2]
              payload == remote[ticker[p]][Payload[Endpoint[local]]]
              built == [fd[p] EXCEPT ![local] = ShapeFundamental(local, payload)]
              last == After(FundamentalProgram, pc[p]) = Done
          IN  /\ calls' = [calls EXCEPT ![p] =
                    Append(@, <<Endpoint[local], ticker[p], ok>>)]
              /\ IF ~ok
                 THEN Raise(p, "ProviderError") /\ UNCHANGED <<fd, frames>>
                 ELSE /\ Continue(p)
                      /\ fd' = [fd EXCEPT ![p] = built]
                      /\ frames' = IF last
                                   THEN [frames EXCEPT ![p] =
                                           [l \in Range(Locals) |->
                                              IF l \in Range(FundLocals)
                                              THEN built[l] ELSE @[l]]]
                                   ELSE frames
    /\ UNCHANGED <<ticker, remote, db, method, writes, runs, dbAtStart, clean,
                   prev, overlapped>>

\* lines 125-129: one to_sql; when it raises, the table either still holds
\* what it held or was already dropped
ToSql(p) ==
    /\ pc[p][1] = "write"
    /\ LET local == pc[p][2]
           table == Destination(local, ticker[p])
       IN  /\ writes' = [writes EXCEPT ![p] = Append(@, table)]
           /\ clean' = [q \in Inst |-> IF q = p THEN clean[q] ELSE FALSE]
           /\ \E outcome \in {"written", "refused", "dropped"} :
                 CASE outcome = "written" ->
                        /\ db' = [db EXCEPT ![table] = Replace(@, frames[p][local])]
                        /\ Continue(p)
                   [] outcome = "refused" ->
                        /\ db' = db
                        /\ Raise(p, "PersistenceError")
                   [] outcome = "dropped" ->
                        /\ db' = [db EXCEPT ![table] = NoTable]
                        /\ Raise(p, "PersistenceError")
    /\ UNCHANGED <<ticker, remote, method, fd, frames, calls, runs, dbAtStart,
                   prev, overlapped>>

\* time passes at the provider: the data of every ticker moves on
ProviderUpdate ==
    /\ \A tk \in Tickers : remote[tk].ver < MaxVersion
    /\ remote' = [tk \in Tickers |-> MoveOn(remote[tk])]
    /\ UNCHANGED <<ticker, db, pc, method, fd, frames, err, calls, writes, runs,
                   dbAtStart, clean, prev, overlapped, lastDone>>

Steps ==
    \/ \E p \in Inst : CreateEngine(p)
    \/ \E p \in Inst : GetHistoricalData(p)
    \/ \E p \in Inst : GetFundamentalData(p)
    \/ \E p \in Inst : ToSql(p)

\* the callers persist
Next == (\E p \in Inst : Start(p, "save_to_database")) \/ Steps

\* the caller persists, and time passes at the provider
NextRefresh == Next \/ ProviderUpdate

\* the caller uses any of the three methods
NextFetch == (\E p \in Inst, m \in Methods : Start(p, m)) \/ Steps

\* two instances running against one database, in any interleaving
Spec == Init /\ [][Next]_vars

\* one instance persisting repeatedly while the provider's data moves on
SpecRefresh == InitRefresh /\ [][NextRefresh]_vars

\* one instance and a provider that serves any of the shapes
SpecFetch == InitFetch /\ [][NextFetch]_vars

----------------------------------------------------------------------------
(* Properties *)

HistoricalColumns == <<"date">> \o HistoricalNames

\* the daily-adjusted frame the provider serves to instance p
DailyOf(p) == remote[ticker[p]].daily

\* get_historical_data returned a table to instance p
HistoricalReturned(p) == frames[p].historical_data # NoFrame

\* get_fundamental_data returned its four tables to instance p
FundamentalsReturned(p) == \A l \in Range(FundLocals) : frames[p][l] # NoFrame

\* the daily-adjusted call of the current call of p returned normally
DailyServed(p) ==
    \E i \in 1..Len(calls[p]) :
        calls[p][i][1] = Endpoint.historical_data /\ calls[p][i][3]

\* the calls the current call of p made to the fundamentals endpoints
FundamentalCalls(p) ==
    SelectSeq(calls[p], LAMBDA c : c[1] # Endpoint.historical_data)

IsPrefix(s, t) == Len(s) <= Len(t) /\ \A i \in 1..Len(s) : s[i] = t[i]

Saving(p) == method[p] = "save_to_database"

TableOf(p, i) == Destination(Locals[i], ticker[p])

\* the local an endpoint fills
LocalOf(endpoint) == CHOOSE l \in Range(Locals) : Endpoint[l] = endpoint

\* C1 as stated: whenever get_historical_data returns a table, whatever the
\* provider's frame looked like, its column names are exactly date, open,
\* high, low, close, adjusted_close, volume, dividend_amount,
\* split_coefficient, in that order.
C1_AnyResponse ==
    \A p \in Inst :
        HistoricalReturned(p) => frames[p].historical_data.columns = HistoricalColumns

\* C1 amended: when the provider's frame has exactly eight data columns with
\* pairwise distinct labels and an index named date, the table returned by
\* get_historical_data has exactly the column names date, open, high, low,
\* close, adjusted_close, volume, dividend_amount, split_coefficient, in
\* that order, whatever the eight labels are, and it has the frame's rows.
C1_HistoricalColumns ==
    \A p \in Inst :
        (/\ HistoricalReturned(p)
         /\ Len(DailyOf(p).columns) = NumHistoricalColumns
         /\ IsDistinct(DailyOf(p).columns)
         /\ DailyOf(p).index = "date")
        => /\ frames[p].historical_data.columns = HistoricalColumns
           /\ frames[p].historical_data.rows = DailyOf(p).rows

\* a table was returned for eight distinct labels that are neither the
\* provider's own nor in the order of the names they receive
C1_Witness ==
    \E p \in Inst :
        /\ HistoricalReturned(p)
        /\ Len(DailyOf(p).columns) = NumHistoricalColumns
        /\ IsDistinct(DailyOf(p).columns)
        /\ DailyOf(p).index = "date"
        /\ DailyOf(p).columns[1] = "split_coefficient"
        /\ "date" \in Range(DailyOf(p).columns)

\* C5: when the provider's daily-adjusted frame has fewer than eight data
\* columns, get_historical_data ends with an error (IndexError) and returns
\* no table, in particular none with fewer columns.
C5_MalformedRaises ==
    \A p \in Inst :
        (DailyServed(p) /\ Len(DailyOf(p).columns) < NumHistoricalColumns)
        => /\ pc[p] = Failed
           /\ err[p] = "IndexError"
           /\ ~HistoricalReturned(p)

\* the provider served a frame of seven columns and the call failed
C5_Witness ==
    \E p \in Inst :
        /\ DailyServed(p)
        /\ Len(DailyOf(p).columns) = NumHistoricalColumns - 1
        /\ pc[p] = Failed
        /\ err[p] = "IndexError"

\* C7: get_fundamental_data calls overview, balance sheet, income statement
\* and cash flow once each in that order; a call that fails is the last one
\* made (no later endpoint, no retry), the method ends with that error and
\* none of the four tables is returned.
C7_FundamentalsAbort ==
    \A p \in Inst :
        LET fc == FundamentalCalls(p)
            n == Len(fc)
        IN  /\ IsPrefix([i \in 1..n |-> fc[i][1]],
                        [i \in 1..Len(FundLocals) |-> Endpoint[FundLocals[i]]])
            /\ \A i \in 1..n : fc[i][2] = ticker[p]
            /\ \A i \in 1..n : i < n => fc[i][3]
            /\ (n > 0 /\ ~fc[n][3])
                  => /\ pc[p] = Failed
                     /\ err[p] = "ProviderError"
                     /\ \A l \in Range(FundLocals) : frames[p][l] = NoFrame
            /\ FundamentalsReturned(p) => n = Len(FundLocals)

\* the third call (income statement) failed in a direct call of
\* get_fundamental_data
C7_Witness ==
    \E p \in Inst :
        /\ method[p] = "get_fundamental_data"
        /\ Len(FundamentalCalls(p)) = 3
        /\ ~FundamentalCalls(p)[3][3]
        /\ pc[p] = Failed
        /\ fd[p].bs_df # NoFrame

\* C9: the overview table returned by get_fundamental_data has exactly one
\* row and each statement table has one row per quarterly report of the
\* provider's payload; the columns of each table are exactly the keys of the
\* provider's records.
C9_FundamentalShapes ==
    \A p \in Inst :
        FundamentalsReturned(p) =>
            LET data == remote[ticker[p]]
            IN  /\ Len(frames[p].overview_df.rows) = 1
                /\ frames[p].overview_df.columns = data.overview.keys
                /\ \A l \in {"bs_df", "is_df", "cf_df"} :
                      LET records == data[Payload[Endpoint[l]]]
                      IN  /\ Len(frames[p][l].rows) = Len(records)
                          /\ \A i \in 1..Len(records) :
                                frames[p][l].rows[i] = records[i].row
                          /\ IsDistinct(frames[p][l].columns)
                          /\ Range(frames[p][l].columns) =
                                UNION {Range(records[i].keys) : i \in 1..Len(records)}

\* tables were returned for statements of different lengths whose reports
\* do not all carry the same keys
C9_Witness ==
    \E p \in Inst :
        /\ FundamentalsReturned(p)
        /\ Len(frames[p].bs_df.rows) = 2
        /\ Len(frames[p].is_df.rows) = 1
        /\ Len(frames[p].cf_df.rows) = 0
        /\ Len(frames[p].bs_df.columns) = 3

\* C2: when a provider call of a save_to_database fails, that call issues
\* no to_sql for the table that call was to fill, and unless another
\* instance wrote meanwhile the table holds what it held when the call began.
C2_NoWriteAfterProviderError ==
    \A p \in Inst :
        \A i \in 1..Len(calls[p]) :
            (Saving(p) /\ ~calls[p][i][3]) =>
                LET table == Destination(LocalOf(calls[p][i][1]), ticker[p])
                IN  /\ table \notin Range(writes[p])
                    /\ clean[p] => db[table] = dbAtStart[p][table]

\* the balance-sheet call of a save failed and the table it was to fill
\* still holds the rows it held before
C2_Witness ==
    \E p \in Inst :
        /\ Saving(p)
        /\ pc[p] = Failed
        /\ err[p] = "ProviderError"
        /\ Len(calls[p]) = 3
        /\ clean[p]
        /\ db[Destination("bs_df", ticker[p])].exists

\* C10: in a save_to_database the provider calls are daily-adjusted,
\* overview, balance sheet, income statement, cash flow, in that order, each
\* at most once and each for the instance's ticker; no to_sql is issued
\* before all five have returned; so when any of them fails no to_sql is
\* issued at all and, unless another instance wrote meanwhile, all five
\* tables hold what they held when the call began.
C10_FetchBeforeWrite ==
    \A p \in Inst :
        Saving(p) =>
            /\ IsPrefix([i \in 1..Len(calls[p]) |-> calls[p][i][1]],
                        [i \in 1..Len(Locals) |-> Endpoint[Locals[i]]])
            /\ \A i \in 1..Len(calls[p]) : calls[p][i][2] = ticker[p]
            /\ writes[p] # <<>> =>
                  /\ Len(calls[p]) = Len(Locals)
                  /\ \A i \in 1..Len(calls[p]) : calls[p][i][3]
            /\ (\E i \in 1..Len(calls[p]) : ~calls[p][i][3]) =>
                  /\ writes[p] = <<>>
                  /\ pc[p] = Failed
                  /\ clean[p] => db = dbAtStart[p]

\* the last provider call (cash flow) of a save failed after the four
\* before it returned, and the tables hold the rows they held before
C10_Witness ==
    \E p \in Inst :
        /\ Saving(p)
        /\ Len(calls[p]) = Len(Locals)
        /\ ~calls[p][Len(Locals)][3]
        /\ frames[p].historical_data # NoFrame
        /\ clean[p]
        /\ \A t \in AllTables : db[t].exists

\* C3: when a save_to_database has completed and no other instance wrote
\* meanwhile, each of the five tables holds exactly the columns and rows of
\* the frame fetched in that call, and no row the table held before is
\* still there unless it is a row of that frame.
C3_ReplaceContents ==
    \A p \in Inst :
        (Saving(p) /\ pc[p] = Done /\ clean[p]) =>
            \A i \in 1..Len(Locals) :
                LET table == TableOf(p, i)
                    frame == frames[p][Locals[i]]
                IN  /\ frame # NoFrame
                    /\ db[table].exists
                    /\ db[table].columns = frame.columns
                    /\ db[table].rows = frame.rows
                    /\ \A r \in Range(dbAtStart[p][table].rows) :
                          r \in Range(db[table].rows) => r \in Range(frame.rows)

\* a save completed over tables that held rows of another ticker
C3_Witness ==
    \E p \in Inst :
        /\ Saving(p) /\ pc[p] = Done /\ clean[p]
        /\ \A i \in 1..Len(Locals) :
              /\ dbAtStart[p][TableOf(p, i)].exists
              /\ \E r \in Range(dbAtStart[p][TableOf(p, i)].rows) :
                    r[1] \in Tickers \ {ticker[p]}

\* C4: when an instance persists again, fetches the same frames as in its
\* previous completed save and no other instance writes in between, the
\* database at every point of the five writes and after them equals the
\* database the previous save left.
C4_Idempotent ==
    \A p \in Inst :
        (/\ Saving(p)
         /\ pc[p] = Done \/ pc[p][1] = "write"
         /\ prev[p].valid
         /\ clean[p]
         /\ frames[p] = prev[p].frames)
        => db = prev[p].db

\* a second save with the same fetch results completed
C4_Witness ==
    \E p \in Inst :
        /\ Saving(p)
        /\ pc[p] = Done
        /\ prev[p].valid
        /\ clean[p]
        /\ frames[p] = prev[p].frames
        /\ \A i \in 1..Len(Locals) : Len(db[TableOf(p, i)].rows) > 0

\* C6: the to_sql calls of a save are issued in the order historical_data,
\* microsoft, balance_sheet_data, income_statement_data, cash_flow_data;
\* when the k-th raises, the call ends with that error, no later to_sql is
\* issued, and unless another instance wrote meanwhile the k-1 tables
\* before it hold the new frames and the tables after it hold what they
\* held when the call began.
C6_PartialWrites ==
    \A p \in Inst :
        Saving(p) =>
            LET k == Len(writes[p])
            IN  /\ k <= Len(Locals)
                /\ \A j \in 1..k : writes[p][j] = TableNames[Locals[j]]
                /\ (pc[p] = Failed /\ err[p] = "PersistenceError" /\ clean[p]) =>
                      /\ k >= 1
                      /\ \A j \in 1..(k - 1) :
                            db[TableOf(p, j)] = Stored(frames[p][Locals[j]])
                      /\ \A j \in (k + 1)..Len(Locals) :
                            db[TableOf(p, j)] = dbAtStart[p][TableOf(p, j)]

\* the third to_sql of a save raised over tables that held other rows
C6_Witness ==
    \E p \in Inst :
        /\ Saving(p)
        /\ pc[p] = Failed /\ err[p] = "PersistenceError" /\ clean[p]
        /\ Len(writes[p]) = 3
        /\ \A j \in 1..Len(Locals) : dbAtStart[p][TableOf(p, j)].exists
        /\ db[TableOf(p, 1)] # dbAtStart[p][TableOf(p, 1)]
        /\ db[TableOf(p, 5)] = dbAtStart[p][TableOf(p, 5)]

\* the tickers whose rows a table holds
TickersIn(table) == {table.rows[i][1] : i \in 1..Len(table.rows)}

\* C8: the name of a destination table does not depend on the ticker; and
\* when the saves of the two instances have both completed and no save ever
\* began while another one was running, all five tables hold the frames of
\* the save that completed last.
C8_SequentialLastWins ==
    /\ \A i \in 1..Len(Locals) : \A tk \in Tickers :
          Destination(Locals[i], tk) = TableNames[Locals[i]]
    /\ (/\ \A p \in Inst : Saving(p) /\ pc[p] = Done
        /\ ~overlapped)
       => \A i \in 1..Len(Locals) :
             db[TableNames[Locals[i]]] = Stored(frames[lastDone][Locals[i]])

\* two saves for different tickers overlapped, both completed, and the five
\* tables hold rows of both tickers
C8_Witness ==
    /\ \A p \in Inst : Saving(p) /\ pc[p] = Done
    /\ overlapped
    /\ \E p, q \in Inst : ticker[p] # ticker[q]
    /\ \A i \in 1..Len(Locals) : Cardinality(TickersIn(db[TableNames[Locals[i]]])) = 1
    /\ \E i, j \in 1..Len(Locals) :
          TickersIn(db[TableNames[Locals[i]]]) # TickersIn(db[TableNames[Locals[j]]])

====
